---- MODULE Spec2Model ----
(***************************************************************************)
(* State-machine model of src/PEAS.py: the Thing / Agent / Environment     *)
(* framework, the table-driven agent program and the two-room doctor       *)
(* environment (TrivialDoctorEnvironment) that instantiates it.            *)
(*                                                                         *)
(* Objects are identified by name.  Python's default == on these classes   *)
(* is identity, so list membership and list.remove compare names.          *)
(***************************************************************************)
EXTENDS Naturals, Integers, Sequences, FiniteSets, TLC

\* ------------------------------------------------------------------ bounds
\* Longest percept history a program instance may accumulate.
MaxHist == 4
\* Largest `steps` argument passed to run().
MaxSteps == 2
\* Number of calls the client code makes in one session.
MaxCalls == 5

\* ------------------------------------------------------- program constants
\* Temperatures are kept in tenths of a degree: 98.5 is 985.
Threshold == 985
TreatReward == 10
MoveCost == 1

\* --------------------------------------------------------------- universes
\* None as a program or an action; NoLoc is None as a location, NoPercept marks
\* a position of a tick where no percept was taken.
None == "None"
NoLoc == <<>>
NoPercept == <<>>
room_A == <<0, 0>>
room_B == <<1, 0>>
Rooms == {room_A, room_B}
Statuses == {"healthy", "unhealthy"}
\* Values the console may supply to float(input(...)), in tenths of a degree.
Temps == {984, 985, 986}
\* Stands for "the console was not read".
NoRead == 0

\* Agent objects, in allocation order, and the one plain Thing.
AgentOrder == <<"a1", "a2">>
Agents == {AgentOrder[i] : i \in 1..Len(AgentOrder)}
PlainThings == {"t1"}
Things == Agents \cup PlainThings
\* Program instances returned by TableDrivenAgentProgram, in allocation order.
ProgramOrder == <<"p1", "p2">>
Programs == {ProgramOrder[i] : i \in 1..Len(ProgramOrder)}
Envs == {"e1", "e2"}

VARIABLES
    made,         \* Agent objects constructed so far
    progs,        \* program instances constructed so far
    alive,        \* Agent.alive
    performance,  \* Agent.performance
    program,      \* Agent.program: a program instance or None
    location,     \* thing.location (None until add_thing sets it)
    percepts,     \* the list `percepts` closed over by each program instance
    fed,          \* log, kept by the callers, of the percepts passed to each instance
    thing,        \* Environment.thing, one list per environment
    agents,       \* Environment.agents, one list per environment
    status,       \* TrivialDoctorEnvironment.status
    pc,           \* "idle", or "run" while a run() call is in its loop
    runEnv,       \* the environment run() was called on
    runSteps,     \* run()'s `steps` argument
    runI,         \* run()'s loop variable: iterations completed
    calls,        \* number of step() calls made by the current run()
    ncalls,       \* number of calls the client code has made
    last          \* what the last call did: operation, arguments, outcome

vars == <<made, progs, alive, performance, program, location, percepts, fed,
          thing, agents, status, pc, runEnv, runSteps, runI, calls, ncalls, last>>

\* ----------------------------------------------------------- list helpers
Range(s) == {s[i] : i \in 1..Len(s)}

\* x in s
In(x, s) == \E i \in 1..Len(s) : s[i] = x

\* Index of the first occurrence of x in s (x must occur).
FirstIndex(x, s) == CHOOSE i \in 1..Len(s) : s[i] = x /\ \A j \in 1..(i-1) : s[j] # x

\* list.remove(x): drops the first occurrence.
Remove(x, s) ==
    LET k == FirstIndex(x, s)
    IN  [i \in 1..(Len(s) - 1) |-> IF i < k THEN s[i] ELSE s[i + 1]]

\* ------------------------------------------------- the table-driven program
\* A variant of the table with an entry whose two-percept prefix is no entry.
tableOrphan ==
    (<< <<room_A, "healthy">> >> :> "Right") @@
    (<< <<room_A, "unhealthy">> >> :> "treat") @@
    (<< <<room_B, "healthy">> >> :> "Left") @@
    (<< <<room_B, "unhealthy">> >> :> "treat") @@
    (<< <<room_A, "unhealthy">>, <<room_A, "healthy">> >> :> "Right") @@
    (<< <<room_A, "healthy">>, <<room_B, "unhealthy">> >> :> "treat") @@
    (<< <<room_B, "healthy">>, <<room_A, "unhealthy">> >> :> "treat") @@
    (<< <<room_B, "unhealthy">>, <<room_B, "healthy">> >> :> "Left") @@
    (<< <<room_A, "unhealthy">>, <<room_A, "healthy">>, <<room_B, "unhealthy">> >> :> "treat") @@
    (<< <<room_B, "unhealthy">>, <<room_B, "healthy">>, <<room_A, "unhealthy">> >> :> "treat") @@
    (<< <<room_A, "healthy">>, <<room_B, "healthy">>, <<room_B, "healthy">> >> :> "Left")

\* A variant of the table without its three-percept entries.
tableShort ==
    (<< <<room_A, "healthy">> >> :> "Right") @@
    (<< <<room_A, "unhealthy">> >> :> "treat") @@
    (<< <<room_B, "healthy">> >> :> "Left") @@
    (<< <<room_B, "unhealthy">> >> :> "treat") @@
    (<< <<room_A, "unhealthy">>, <<room_A, "healthy">> >> :> "Right") @@
    (<< <<room_A, "healthy">>, <<room_B, "unhealthy">> >> :> "treat") @@
    (<< <<room_B, "healthy">>, <<room_A, "unhealthy">> >> :> "treat") @@
    (<< <<room_B, "unhealthy">>, <<room_B, "healthy">> >> :> "Left")

\* The doctor's table: percept sequence |-> action.
table ==
    (<< <<room_A, "healthy">> >> :> "Right") @@
    (<< <<room_A, "unhealthy">> >> :> "treat") @@
    (<< <<room_B, "healthy">> >> :> "Left") @@
    (<< <<room_B, "unhealthy">> >> :> "treat") @@
    (<< <<room_A, "unhealthy">>, <<room_A, "healthy">> >> :> "Right") @@
    (<< <<room_A, "healthy">>, <<room_B, "unhealthy">> >> :> "treat") @@
    (<< <<room_B, "healthy">>, <<room_A, "unhealthy">> >> :> "treat") @@
    (<< <<room_B, "unhealthy">>, <<room_B, "healthy">> >> :> "Left") @@
    (<< <<room_A, "unhealthy">>, <<room_A, "healthy">>, <<room_B, "unhealthy">> >> :> "treat") @@
    (<< <<room_B, "unhealthy">>, <<room_B, "healthy">>, <<room_A, "unhealthy">> >> :> "treat")

\* A variant of the lookup that consults the latest percept alone.
TableGetLatest(key) ==
    LET k == <<key[Len(key)]>>
    IN  IF k \in DOMAIN table THEN table[k] ELSE None

\* table.get(key): the value, or None when key is absent.
TableGet(key) == IF key \in DOMAIN table THEN table[key] ELSE None

\* A variant of the program that remembers the latest percept only.
ProgramCallForgetful(h, percept) ==
    [percepts |-> <<percept>>, key |-> <<percept>>, action |-> TableGet(<<percept>>)]

\* One call program(percept) on a program instance whose list is h:
\* append, then look the whole list up.  `key` is the tuple handed to table.get.
ProgramCall(h, percept) ==
    LET h2 == Append(h, percept)
    IN  [percepts |-> h2, key |-> h2, action |-> TableGet(h2)]

\* ------------------------------------------------------------- Thing, Agent
\* Thing.is_alive: only Agent objects carry an `alive` attribute.
is_alive(x) == x \in Agents /\ alive[x]

\* Agent.can_grab
can_grab(a, x) == FALSE

\* ---------------------------------------------- TrivialDoctorEnvironment
\* The part of the state one tick of environment e reads and writes.
World(e) == [location |-> location, performance |-> performance, status |-> status[e]]

\* percept(agent): the agent's location and that location's status.
percept(w, a) == <<w.location[a], w.status[w.location[a]]>>

\* A variant of execute_action with the two moves exchanged.
execute_actionSwapped(w, a, action, tem) ==
    CASE action = "Right" ->
            [w EXCEPT !.location[a] = room_A, !.performance[a] = @ - MoveCost]
      [] action = "Left" ->
            [w EXCEPT !.location[a] = room_B, !.performance[a] = @ - MoveCost]
      [] action = "treat" ->
            [w EXCEPT !.performance[a] = IF tem >= Threshold THEN @ + TreatReward ELSE @,
                      !.status[w.location[a]] = "healthy"]
      [] OTHER -> w

\* A variant of execute_action that charges a move for an action it does not know.
execute_actionCharging(w, a, action, tem) ==
    CASE action = "Right" ->
            [w EXCEPT !.location[a] = room_B, !.performance[a] = @ - MoveCost]
      [] action = "Left" ->
            [w EXCEPT !.location[a] = room_A, !.performance[a] = @ - MoveCost]
      [] action = "treat" ->
            [w EXCEPT !.performance[a] = IF tem >= Threshold THEN @ + TreatReward ELSE @,
                      !.status[w.location[a]] = "healthy"]
      [] OTHER -> [w EXCEPT !.performance[a] = @ - MoveCost]

\* execute_action(agent, action), with tem the temperature read from the console.
execute_action(w, a, action, tem) ==
    CASE action = "Right" ->
            [w EXCEPT !.location[a] = room_B, !.performance[a] = @ - MoveCost]
      [] action = "Left" ->
            [w EXCEPT !.location[a] = room_A, !.performance[a] = @ - MoveCost]
      [] action = "treat" ->
            [w EXCEPT !.performance[a] = IF tem >= Threshold THEN @ + TreatReward ELSE @,
                      !.status[w.location[a]] = "healthy"]
      [] OTHER -> w

\* ------------------------------------------------------------- Environment
\* A variant of is_done() that asks whether some agent is dead.
is_doneNotAll(e) == ~ \A i \in 1..Len(agents[e]) : is_alive(agents[e][i])

\* is_done(): no agent of the agents list is alive.
is_done(e) == ~ \E i \in 1..Len(agents[e]) : is_alive(agents[e][i])

\* What a tick has done so far.  hist: the program instances' lists; fed: the
\* percepts handed to each instance, logged by the caller; per position of the
\* agents list: seen (percept taken), keys (tuple looked up), calln (how many
\* calls the instance had received), actions, tems (temperature consumed);
\* executed: the execute_action calls in the order made.
TickStart(e) ==
    [hist |-> percepts, fed |-> fed, world |-> World(e),
     seen |-> <<>>, keys |-> <<>>, calln |-> <<>>, actions |-> <<>>,
     tems |-> <<>>, executed |-> <<>>, raised |-> "none"]

\* A variant of the first loop that consults every agent's program, alive or not.
RECURSIVE DecideAll(_, _, _)
DecideAll(e, i, acc) ==
    IF i > Len(agents[e]) \/ acc.raised # "none" THEN acc
    ELSE LET a == agents[e][i]
             p == program[a]
         IN  IF p = None
             THEN [acc EXCEPT !.raised = "TypeError"]
             ELSE LET pv == percept(acc.world, a)
                      r  == ProgramCall(acc.hist[p], pv)
                  IN  DecideAll(e, i + 1,
                         [acc EXCEPT !.hist[p] = r.percepts,
                                     !.fed[p] = Append(@, pv),
                                     !.seen = Append(@, pv),
                                     !.keys = Append(@, r.key),
                                     !.calln = Append(@, Len(acc.fed[p]) + 1),
                                     !.actions = Append(@, r.action)])

\* First loop of step(): one action per agent, nothing applied yet.
RECURSIVE Decide(_, _, _)
Decide(e, i, acc) ==
    IF i > Len(agents[e]) \/ acc.raised # "none" THEN acc
    ELSE LET a == agents[e][i]
             p == program[a]
         IN  IF alive[a]
             THEN IF p = None
                  THEN [acc EXCEPT !.raised = "TypeError"]
                  ELSE LET pv == percept(acc.world, a)
                           r  == ProgramCall(acc.hist[p], pv)
                       IN  Decide(e, i + 1,
                              [acc EXCEPT !.hist[p] = r.percepts,
                                          !.fed[p] = Append(@, pv),
                                          !.seen = Append(@, pv),
                                          !.keys = Append(@, r.key),
                                          !.calln = Append(@, Len(acc.fed[p]) + 1),
                                          !.actions = Append(@, r.action)])
             ELSE Decide(e, i + 1,
                     [acc EXCEPT !.seen = Append(@, NoPercept),
                                 !.keys = Append(@, <<>>),
                                 !.calln = Append(@, 0),
                                 !.actions = Append(@, "")])

\* Second loop of step(): zip(agents, actions), applied in list order.
RECURSIVE Execute(_, _, _, _)
Execute(e, i, tem, acc) ==
    IF i > Len(agents[e]) \/ i > Len(acc.actions) THEN acc
    ELSE LET a   == agents[e][i]
             act == acc.actions[i]
         IN  Execute(e, i + 1, tem,
                [acc EXCEPT !.world = execute_action(@, a, act, tem[i]),
                            !.tems = Append(@, IF act = "treat" THEN tem[i] ELSE NoRead),
                            !.executed = Append(@, <<a, act>>)])

\* A variant of the tick that applies each agent's action as soon as it is decided.
RECURSIVE Interleaved(_, _, _, _)
Interleaved(e, i, tem, acc) ==
    IF i > Len(agents[e]) \/ acc.raised # "none" THEN acc
    ELSE LET a == agents[e][i]
             p == program[a]
         IN  IF alive[a]
             THEN IF p = None
                  THEN [acc EXCEPT !.raised = "TypeError"]
                  ELSE LET pv == percept(acc.world, a)
                           r  == ProgramCall(acc.hist[p], pv)
                       IN  Interleaved(e, i + 1, tem,
                              [acc EXCEPT !.hist[p] = r.percepts,
                                          !.fed[p] = Append(@, pv),
                                          !.seen = Append(@, pv),
                                          !.keys = Append(@, r.key),
                                          !.calln = Append(@, Len(acc.fed[p]) + 1),
                                          !.actions = Append(@, r.action),
                                          !.world = execute_action(@, a, r.action, tem[i]),
                                          !.tems = Append(@, IF r.action = "treat" THEN tem[i] ELSE NoRead),
                                          !.executed = Append(@, <<a, r.action>>)])
             ELSE Interleaved(e, i + 1, tem,
                     [acc EXCEPT !.seen = Append(@, NoPercept),
                                 !.keys = Append(@, <<>>),
                                 !.calln = Append(@, 0),
                                 !.actions = Append(@, ""),
                                 !.tems = Append(@, NoRead),
                                 !.executed = Append(@, <<a, "">>)])

TickInterleaved(e, tem) == Interleaved(e, 1, tem, TickStart(e))

\* The body of step() once is_done() is false: decide for all, then apply to all.
\* An exception raised while deciding leaves the second loop unrun.
\* (The outcome d of the first loop is bound as a value, so that it is computed once.)
Tick(e, tem) ==
    LET Apply(d) == IF d.raised # "none" THEN d ELSE Execute(e, 1, tem, d)
    IN  CHOOSE t \in {Apply(d) : d \in {Decide(e, 1, TickStart(e))}} : TRUE

\* --------------------------------------------------------------- the calls
\* The record kept of the last call.  thing: the object passed (or wrapped);
\* reported: a message was printed; skipped: step() found is_done() true;
\* ret: what is_done() returned; oldperf: the performance the thing had before
\* add_thing; the remaining fields are the tick's (see TickStart).
Blank ==
    [op |-> "none", env |-> "none", thing |-> "none", reported |-> FALSE,
     skipped |-> FALSE, ret |-> FALSE, oldperf |-> 0, raised |-> "none",
     seen |-> <<>>, keys |-> <<>>, calln |-> <<>>, actions |-> <<>>,
     tems |-> <<>>, executed |-> <<>>]

\* The session has constructed the environments of E; the others do not exist.
InitOn(E) ==
    /\ made = {}
    /\ progs = {}
    /\ alive = [a \in Agents |-> FALSE]
    /\ performance = [x \in Things |-> 0]
    /\ program = [a \in Agents |-> None]
    /\ location = [x \in Things |-> NoLoc]
    /\ percepts = [p \in Programs |-> <<>>]
    /\ fed = [p \in Programs |-> <<>>]
    /\ thing = [e \in Envs |-> <<>>]
    /\ agents = [e \in Envs |-> <<>>]
    /\ status \in [Envs -> [Rooms -> Statuses \cup {"none"}]]
    /\ \A e \in Envs : \A r \in Rooms : status[e][r] = "none" <=> e \notin E
    /\ pc = "idle"
    /\ runEnv = "none"
    /\ runSteps = 0
    /\ runI = 0
    /\ calls = 0
    /\ ncalls = Cardinality(E) - 1
    /\ last = Blank

\* A variant of the allocator that hands out the same object every time.
FirstAgent == AgentOrder[1]

\* The next object the allocator hands out.
NewAgent == AgentOrder[Cardinality(made) + 1]
NewProgram == ProgramOrder[Cardinality(progs) + 1]
CanMakeAgent == Cardinality(made) < Len(AgentOrder)
CanMakeProgram == Cardinality(progs) < Len(ProgramOrder)

runVars == <<pc, runEnv, runSteps, runI, calls>>

\* The client code, between calls, makes one more call.
ClientCall ==
    /\ pc = "idle"
    /\ ncalls < MaxCalls
    /\ ncalls' = ncalls + 1

envVars == <<thing, agents, status>>
progVars == <<progs, percepts, fed>>

\* TableDrivenAgentProgram(table): a new instance with an empty list.
TableDrivenAgentProgram ==
    /\ ClientCall
    /\ CanMakeProgram
    /\ progs' = progs \cup {NewProgram}
    /\ percepts' = [percepts EXCEPT ![NewProgram] = <<>>]
    /\ fed' = [fed EXCEPT ![NewProgram] = <<>>]
    /\ last' = [Blank EXCEPT !.op = "TableDrivenAgentProgram", !.thing = NewProgram]
    /\ UNCHANGED <<made, alive, performance, program, location, envVars, runVars>>

\* Agent.__init__ on object a.
AgentFields(a, prog) ==
    /\ made' = made \cup {a}
    /\ alive' = [alive EXCEPT ![a] = TRUE]
    /\ performance' = [performance EXCEPT ![a] = 0]
    /\ program' = [program EXCEPT ![a] = prog]

\* Agent(program)
AgentInit(prog) ==
    /\ ClientCall
    /\ CanMakeAgent
    /\ prog \in progs \cup {None}
    /\ AgentFields(NewAgent, prog)
    /\ last' = [Blank EXCEPT !.op = "Agent", !.thing = NewAgent]
    /\ UNCHANGED <<location, progVars, envVars, runVars>>

\* TableDrivenDoctorAgent(): Agent(TableDrivenAgentProgram(table))
TableDrivenDoctorAgent ==
    /\ ClientCall
    /\ CanMakeAgent /\ CanMakeProgram
    /\ progs' = progs \cup {NewProgram}
    /\ percepts' = [percepts EXCEPT ![NewProgram] = <<>>]
    /\ fed' = [fed EXCEPT ![NewProgram] = <<>>]
    /\ AgentFields(NewAgent, NewProgram)
    /\ last' = [Blank EXCEPT !.op = "TableDrivenDoctorAgent", !.thing = NewAgent]
    /\ UNCHANGED <<location, envVars, runVars>>

\* Client code clearing the public attribute agent.alive.
Kill(a) ==
    /\ ClientCall
    /\ a \in made /\ alive[a]
    /\ alive' = [alive EXCEPT ![a] = FALSE]
    /\ last' = [Blank EXCEPT !.op = "kill", !.thing = a]
    /\ UNCHANGED <<made, performance, program, location, progVars, envVars, runVars>>

\* default_location(thing) of TrivialDoctorEnvironment: random.choice of the rooms.
default_location(r) == r

\* A variant of the membership test that never finds the thing.
IsRegisteredNever(e, t) == FALSE

\* `thing in self.thing`
IsRegistered(e, t) == In(t, thing[e])

\* A variant of the registration that keeps the performance the agent came with.
RegisterKeepingScore(e, t, perf, loc) ==
    /\ location' = [location EXCEPT ![t] = loc]
    /\ thing' = [thing EXCEPT ![e] = Append(@, t)]
    /\ performance' = perf
    /\ agents' = [agents EXCEPT ![e] = IF t \in Agents THEN Append(@, t) ELSE @]

\* What add_thing does to a thing t that is not yet in e's list.
Register(e, t, perf, loc) ==
    /\ location' = [location EXCEPT ![t] = loc]
    /\ thing' = [thing EXCEPT ![e] = Append(@, t)]
    /\ IF t \in Agents
       THEN /\ performance' = [perf EXCEPT ![t] = 0]
            /\ agents' = [agents EXCEPT ![e] = Append(@, t)]
       ELSE /\ performance' = perf
            /\ agents' = agents

\* add_thing(x, l) on environment e.  x is a Thing, or anything else (a program
\* instance, None), which is wrapped in a new Agent first; r is the room
\* default_location draws when l is None.
add_thing(e, x, l, r) ==
    /\ ClientCall
    /\ x \in made \cup PlainThings \cup progs \cup {None}
    /\ IF x \in Things
       THEN /\ UNCHANGED <<made, alive, program>>
            /\ IF IsRegistered(e, x)
               THEN /\ last' = [Blank EXCEPT !.op = "add_thing", !.env = e, !.thing = x,
                                             !.reported = TRUE, !.oldperf = performance[x]]
                    /\ UNCHANGED <<performance, location, thing, agents>>
               ELSE /\ Register(e, x, performance, IF l # NoLoc THEN l ELSE default_location(r))
                    /\ last' = [Blank EXCEPT !.op = "add_thing", !.env = e, !.thing = x,
                                             !.oldperf = performance[x]]
       ELSE /\ CanMakeAgent
            /\ made' = made \cup {NewAgent}
            /\ alive' = [alive EXCEPT ![NewAgent] = TRUE]
            /\ program' = [program EXCEPT ![NewAgent] = x]
            /\ Register(e, NewAgent, [performance EXCEPT ![NewAgent] = 0],
                        IF l # NoLoc THEN l ELSE default_location(r))
            /\ last' = [Blank EXCEPT !.op = "add_thing", !.env = e, !.thing = NewAgent]
    /\ UNCHANGED <<progVars, status, runVars>>

\* A variant of the second half of delete_thing that leaves the agents list alone.
AgentsAfterDeleteKept(e, x) == agents[e]

\* A variant of the first half of delete_thing that leaves the thing list alone.
ThingAfterDeleteKept(e, x) == thing[e]

\* self.thing.remove(thing), the ValueError caught and reported.
ThingAfterDelete(e, x) == IF In(x, thing[e]) THEN Remove(x, thing[e]) ELSE thing[e]

\* if thing in self.agents: self.agents.remove(thing)
AgentsAfterDelete(e, x) == IF In(x, agents[e]) THEN Remove(x, agents[e]) ELSE agents[e]

\* A variant of delete_thing that also clears the score of the thing it removes.
delete_thingClearing(e, x) ==
    /\ ClientCall
    /\ x \in made \cup PlainThings
    /\ thing' = [thing EXCEPT ![e] = ThingAfterDelete(e, x)]
    /\ agents' = [agents EXCEPT ![e] = AgentsAfterDelete(e, x)]
    /\ performance' = [performance EXCEPT ![x] = 0]
    /\ last' = [Blank EXCEPT !.op = "delete_thing", !.env = e, !.thing = x,
                             !.reported = ~In(x, thing[e])]
    /\ UNCHANGED <<made, alive, program, location, progVars, status, runVars>>

\* delete_thing(x) on environment e.
delete_thing(e, x) ==
    /\ ClientCall
    /\ x \in made \cup PlainThings
    /\ thing' = [thing EXCEPT ![e] = ThingAfterDelete(e, x)]
    /\ agents' = [agents EXCEPT ![e] = AgentsAfterDelete(e, x)]
    /\ last' = [Blank EXCEPT !.op = "delete_thing", !.env = e, !.thing = x,
                             !.reported = ~In(x, thing[e])]
    /\ UNCHANGED <<made, alive, performance, program, location, progVars, status, runVars>>

\* A call of is_done() on environment e.
IsDone(e) ==
    /\ ClientCall
    /\ last' = [Blank EXCEPT !.op = "is_done", !.env = e, !.ret = is_done(e)]
    /\ UNCHANGED <<made, alive, performance, program, location, progVars, envVars, runVars>>

\* The state and the record after a tick whose outcome is t.
AfterTick(e, t) ==
    /\ percepts' = t.hist
    /\ fed' = t.fed
    /\ location' = t.world.location
    /\ performance' = t.world.performance
    /\ status' = [status EXCEPT ![e] = t.world.status]
    /\ last' = [Blank EXCEPT !.op = "step", !.env = e, !.raised = t.raised,
                             !.seen = t.seen, !.keys = t.keys, !.calln = t.calln,
                             !.actions = t.actions, !.tems = t.tems,
                             !.executed = t.executed]
    /\ UNCHANGED <<made, progs, alive, program, thing, agents>>

\* A variant of step() without the is_done() test.
StepBodyUnguarded(e, tem) == \E t \in {Tick(e, tem)} : AfterTick(e, t)

\* step() on environment e; tem[i] is the temperature the console supplies
\* should the i-th agent's action ask for one.
StepBody(e, tem) ==
    IF is_done(e)
    THEN /\ last' = [Blank EXCEPT !.op = "step", !.env = e, !.skipped = TRUE]
         /\ UNCHANGED <<made, alive, performance, program, location, progVars, envVars>>
    ELSE \E t \in {Tick(e, tem)} : AfterTick(e, t)

\* Live agents of e that run program instance p.
Callers(e, p) == {i \in 1..Len(agents[e]) : alive[agents[e][i]] /\ program[agents[e][i]] = p}

\* n more ticks of e keep every history within MaxHist.
HasRoom(e, n) == \A p \in Programs : Len(percepts[p]) + n * Cardinality(Callers(e, p)) <= MaxHist

\* What the console supplies during a tick of e: a temperature at the positions
\* whose action is "treat", and NoRead where input() is not called.
Inputs(e) ==
    LET For(acts) ==
            {tem \in [1..Len(agents[e]) -> Temps \cup {NoRead}] :
                \A i \in 1..Len(agents[e]) :
                    tem[i] # NoRead <=> (i <= Len(acts) /\ acts[i] = "treat")}
    IN  UNION {For(acts) : acts \in {Decide(e, 1, TickStart(e)).actions}}

step(e) ==
    /\ ClientCall
    /\ HasRoom(e, 1)
    /\ \E tem \in Inputs(e) : StepBody(e, tem)
    /\ UNCHANGED runVars

\* run(n) on environment e: enter the loop.
run(e, n) ==
    /\ ClientCall
    /\ HasRoom(e, n)
    /\ pc' = "run"
    /\ runEnv' = e
    /\ runSteps' = n
    /\ runI' = 0
    /\ calls' = 0
    /\ last' = [Blank EXCEPT !.op = "run", !.env = e]
    /\ UNCHANGED <<made, alive, performance, program, location, progVars, envVars>>

\* run() handing control back to its caller.
RunReturn ==
    /\ pc' = "idle"
    /\ runEnv' = "none"
    /\ runSteps' = 0
    /\ runI' = 0
    /\ calls' = 0

\* A variant of the loop that runs one pass too many.
RunLoopOneMore ==
    /\ pc = "run"
    /\ UNCHANGED ncalls
    /\ IF runI > runSteps \/ is_done(runEnv)
       THEN /\ RunReturn
            /\ last' = [Blank EXCEPT !.op = "run_return", !.env = runEnv]
            /\ UNCHANGED <<made, alive, performance, program, location, progVars, envVars>>
       ELSE \E tem \in Inputs(runEnv) :
                /\ StepBody(runEnv, tem)
                /\ IF last'.raised # "none"
                   THEN RunReturn
                   ELSE /\ runI' = runI + 1
                        /\ calls' = calls + 1
                        /\ UNCHANGED <<pc, runEnv, runSteps>>

\* One pass of run()'s loop: leave when the range is exhausted or is_done(),
\* otherwise call step(); an exception raised by step() ends run() too.
RunLoop ==
    /\ pc = "run"
    /\ UNCHANGED ncalls
    /\ IF runI >= runSteps \/ is_done(runEnv)
       THEN /\ RunReturn
            /\ last' = [Blank EXCEPT !.op = "run_return", !.env = runEnv]
            /\ UNCHANGED <<made, alive, performance, program, location, progVars, envVars>>
       ELSE \E tem \in Inputs(runEnv) :
                /\ StepBody(runEnv, tem)
                /\ IF last'.raised # "none"
                   THEN RunReturn
                   ELSE /\ runI' = runI + 1
                        /\ calls' = calls + 1
                        /\ UNCHANGED <<pc, runEnv, runSteps>>

\* The calls of a session on the environments of E.
NextOn(E) ==
    \/ TableDrivenAgentProgram
    \/ TableDrivenDoctorAgent
    \/ \E prog \in Programs \cup {None} : AgentInit(prog)
    \/ \E a \in Agents : Kill(a)
    \/ \E e \in E, x \in Things \cup Programs \cup {None}, l \in Rooms \cup {NoLoc} :
          \E r \in IF l = NoLoc THEN Rooms ELSE {l} : add_thing(e, x, l, r)
    \/ \E e \in E, x \in Things : delete_thing(e, x)
    \/ \E e \in E : IsDone(e)
    \/ \E e \in E : step(e)
    \/ \E e \in E, n \in 0..MaxSteps : run(e, n)
    \/ RunLoop

Init == InitOn({"e1"})
Next == NextOn({"e1"})
Spec == Init /\ [][Next]_vars

\* A session that builds agents, registers them, clears alive flags and calls
\* run().  run() is an ordinary synchronous loop: once called it keeps going.
NextRun ==
    \/ TableDrivenDoctorAgent
    \/ \E prog \in Programs \cup {None} : AgentInit(prog)
    \/ \E a \in Agents : Kill(a)
    \/ \E x \in Agents, l \in Rooms \cup {NoLoc} :
          \E r \in IF l = NoLoc THEN Rooms ELSE {l} : add_thing("e1", x, l, r)
    \/ \E n \in 0..MaxSteps : run("e1", n)
    \/ RunLoop
FairSpec == Init /\ [][NextRun]_vars /\ WF_vars(RunLoop)

\* A session that has constructed two environments and moves doctor agents
\* between them.
InitTwo == InitOn(Envs)
NextTwo ==
    \/ TableDrivenDoctorAgent
    \/ \E e \in Envs, x \in Agents, l \in Rooms \cup {NoLoc} :
          \E r \in IF l = NoLoc THEN Rooms ELSE {l} : add_thing(e, x, l, r)
    \/ \E e \in Envs, x \in Agents : delete_thing(e, x)
    \/ \E e \in Envs : step(e)
SpecTwo == InitTwo /\ [][NextTwo]_vars

\* The session of __main__, generalised: doctors are built and registered in the
\* one environment, which is then stepped and run.
NextDoctor ==
    \/ TableDrivenDoctorAgent
    \/ \E x \in Agents, l \in Rooms \cup {NoLoc} :
          \E r \in IF l = NoLoc THEN Rooms ELSE {l} : add_thing("e1", x, l, r)
    \/ step("e1")
    \/ \E n \in 0..MaxSteps : run("e1", n)
    \/ RunLoop
SpecDoctor == Init /\ [][NextDoctor]_vars

\* A session that builds program instances and passes them, bare, to add_thing.
NextBare ==
    \/ TableDrivenAgentProgram
    \/ \E x \in Programs, l \in Rooms \cup {NoLoc} :
          \E r \in IF l = NoLoc THEN Rooms ELSE {l} : add_thing("e1", x, l, r)
    \/ step("e1")
SpecBare == Init /\ [][NextBare]_vars

\* ================================================================ properties
\* The agent at position i of the tick recorded in `last`, its program instance,
\* and the percepts that instance had been passed when it answered that call.
TickAgent(i) == agents[last.env][i]
TickProgram(i) == program[TickAgent(i)]
TickFed(i) == SubSeq(fed[TickProgram(i)], 1, last.calln[i])
\* The positions of the recorded tick at which a program was called.
TickCalls == {i \in 1..Len(last.keys) : last.calln[i] > 0}
Ticked == last.op = "step" /\ ~last.skipped

\* C1: the k-th call on a program instance looks up exactly the first k percepts
\* it was passed, in the order received; the instance's list is the sequence of
\* all percepts passed so far, so it grows by one per call and is never
\* truncated or reordered.
HistoryAccumulates ==
    /\ \A p \in Programs : percepts[p] = fed[p]
    /\ Ticked => \A i \in TickCalls : last.keys[i] = TickFed(i)

\* C1 witness: a third call on one instance has looked up a three-percept key.
HistoryAccumulatesWitness ==
    /\ Ticked
    /\ \E i \in TickCalls : last.calln[i] = 3 /\ Len(last.keys[i]) = 3

\* C2: the action returned is the table's value when the whole accumulated
\* history is a key and None when it is not, and a tick in which every live
\* agent has a program raises nothing.
TableExactness ==
    Ticked =>
        /\ \A i \in TickCalls :
              last.actions[i] = IF TickFed(i) \in DOMAIN table
                                THEN table[TickFed(i)] ELSE None
        /\ (\A i \in 1..Len(agents[last.env]) :
                alive[TickAgent(i)] => TickProgram(i) # None) => last.raised = "none"

\* C2 witness: a call returned None on a history that is no key although its
\* latest percept alone is one.
TableExactnessWitness ==
    /\ Ticked
    /\ \E i \in TickCalls :
          /\ last.actions[i] = None
          /\ last.calln[i] >= 2
          /\ <<last.seen[i]>> \in DOMAIN table

\* C3: in a tick every percept is the one the world showed before the tick, the
\* key looked up ends with it, and the actions are applied afterwards, one per
\* agent, in the order of the agents list.
TwoPhaseTick ==
    [][(last'.op = "step" /\ ~last'.skipped) =>
          LET e == last'.env
              w == World(e)
          IN  /\ \A i \in 1..Len(last'.seen) :
                    alive[agents[e][i]] =>
                        /\ last'.seen[i] = percept(w, agents[e][i])
                        /\ last'.keys[i][Len(last'.keys[i])] = percept(w, agents[e][i])
              /\ last'.raised = "none" =>
                    /\ Len(last'.executed) = Len(agents[e])
                    /\ \A i \in 1..Len(agents[e]) :
                          last'.executed[i] = <<agents[e][i], last'.actions[i]>>]_vars

\* C3 witness: two live agents stood in the same unhealthy room; the first one's
\* action was "treat", and the second still perceived the room as unhealthy.
TwoPhaseTickWitness ==
    /\ Ticked
    /\ Len(last.seen) = 2
    /\ alive[TickAgent(1)] /\ alive[TickAgent(2)]
    /\ last.actions[1] = "treat"
    /\ last.seen[2] = last.seen[1]
    /\ last.seen[2][2] = "unhealthy"

\* C4: is_done() returns true exactly when no member of the agents list has its
\* alive flag set, as the flags stand at the moment of the call.
DoneIffNoLiveAgent ==
    last.op = "is_done" =>
        (last.ret <=> \A a \in Range(agents[last.env]) : ~alive[a])

\* C4 witness: is_done() answered true for an environment that holds agents.
DoneIffNoLiveAgentWitness ==
    /\ last.op = "is_done"
    /\ last.ret
    /\ Len(agents[last.env]) > 0

\* C5: run(steps) calls step() at most `steps` times, never calls it when the
\* range is exhausted or is_done() is true, and hands control back.
RunBounded ==
    /\ [](pc = "run" => calls <= runSteps /\ calls = runI)
    /\ [][(pc = "run" /\ last'.op = "step") =>
             /\ ~is_done(runEnv)
             /\ runI < runSteps
             /\ ~last'.skipped]_vars
    /\ (pc = "run" ~> pc = "idle")

\* C5 witness: run(2) has called step() twice on an environment that is not
\* done; the loop is about to end.
RunBoundedWitness ==
    /\ pc = "run"
    /\ runSteps = 2
    /\ calls = 2
    /\ ~is_done(runEnv)

\* C6: add_thing of a thing that is already in the environment's list reports
\* it, raises nothing, and leaves both lists, every location and every
\* performance as they were.
DuplicateAddIsNoOp ==
    [][(last'.op = "add_thing" /\ In(last'.thing, thing[last'.env])) =>
          /\ last'.reported
          /\ last'.raised = "none"
          /\ thing' = thing
          /\ agents' = agents
          /\ location' = location
          /\ performance' = performance]_vars

\* C6 witness: a registered agent with a score was added again.
DuplicateAddIsNoOpWitness ==
    /\ last.op = "add_thing"
    /\ last.reported
    /\ last.thing \in Agents
    /\ performance[last.thing] # 0

\* C7: after add_thing has registered an agent, the agent's performance is 0,
\* whatever it was before.
AddResetsPerformance ==
    (last.op = "add_thing" /\ ~last.reported /\ last.thing \in Agents)
        => performance[last.thing] = 0

\* C7 witness: an agent that had earned a score in one environment, and is still
\* registered there, was added to the other.
AddResetsPerformanceWitness ==
    /\ last.op = "add_thing"
    /\ ~last.reported
    /\ last.thing \in Agents
    /\ last.oldperf # 0
    /\ \E e \in Envs \ {last.env} : In(last.thing, agents[e])

\* C8: every member of an environment's agents list is a member of its thing list.
AgentsSubsetOfThings ==
    \A e \in Envs : Range(agents[e]) \subseteq Range(thing[e])

\* C8 witness: an agent was deleted from an environment that still holds
\* another agent and a thing that is no agent.
AgentsSubsetOfThingsWitness ==
    /\ last.op = "delete_thing"
    /\ ~last.reported
    /\ last.thing \in Agents
    /\ Len(agents[last.env]) >= 1
    /\ Len(thing[last.env]) > Len(agents[last.env])

\* A tick of an environment whose only agent is a live one with a program.
SoloTick(e, a) ==
    /\ last'.op = "step" /\ ~last'.skipped /\ last'.env = e
    /\ agents[e] = <<a>>
    /\ alive[a]
    /\ program[a] # None

\* C9: the doctor in unhealthy room_A, perceiving for the first time, treats:
\* room_A becomes healthy and a qualifying temperature adds exactly 10 to its
\* performance; perceiving (room_A, "healthy") next, it goes Right: its
\* performance drops by exactly 1 and it is in room_B.
ReferenceScenario ==
    [][\A e \in Envs, a \in Agents :
          SoloTick(e, a) =>
             /\ (/\ percepts[program[a]] = <<>>
                 /\ location[a] = room_A
                 /\ status[e][room_A] = "unhealthy") =>
                    /\ last'.actions = <<"treat">>
                    /\ status'[e][room_A] = "healthy"
                    /\ last'.tems[1] >= 985 => performance'[a] = performance[a] + 10
             /\ (/\ percepts[program[a]] = << <<room_A, "unhealthy">> >>
                 /\ location[a] = room_A
                 /\ status[e][room_A] = "healthy") =>
                    /\ last'.actions = <<"Right">>
                    /\ performance'[a] = performance[a] - 1
                    /\ location'[a] = room_B]_vars

\* C9 witness: the scenario has run to its end: treated with a qualifying
\* temperature, then moved Right.
ReferenceScenarioWitness ==
    /\ Ticked
    /\ Len(agents[last.env]) = 1
    /\ last.actions = <<"Right">>
    /\ last.keys[1] = << <<room_A, "unhealthy">>, <<room_A, "healthy">> >>
    /\ performance[TickAgent(1)] = 9
    /\ location[TickAgent(1)] = room_B

\* C10: a tick of an environment that holds a live agent without a program
\* raises nothing.
NoProgramNoFailure ==
    (Ticked /\ \E i \in 1..Len(agents[last.env]) :
                  alive[TickAgent(i)] /\ TickProgram(i) = None)
        => last.raised = "none"

\* C11: step() on an environment none of whose agents is alive takes no
\* percept, calls no program and no execute_action, raises nothing, and leaves
\* the histories, both lists, the statuses, and every agent's location,
\* performance, alive flag and program as they were.
StepOnDoneHasNoEffect ==
    [][\A e \in Envs :
          (/\ last'.op = "step" /\ last'.env = e
           /\ \A a \in Range(agents[e]) : ~alive[a]) =>
              /\ last'.raised = "none"
              /\ last'.seen = <<>>
              /\ last'.keys = <<>>
              /\ last'.executed = <<>>
              /\ UNCHANGED <<percepts, fed, thing, agents, status,
                             performance, location, alive, program>>]_vars

\* C11 witness: step() was called on an environment whose only agent, a doctor
\* that had acted and scored before, is dead.
StepOnDoneHasNoEffectWitness ==
    /\ last.op = "step"
    /\ last.skipped
    /\ \E a \in Range(agents[last.env]) :
          /\ ~alive[a]
          /\ program[a] # None
          /\ Len(percepts[program[a]]) > 0
          /\ performance[a] # 0

\* s with its member x taken out, the others keeping their order.
Without(s, x) == SelectSeq(s, LAMBDA y : y # x)

\* C12: delete_thing(x) raises nothing and leaves x in neither list, the other
\* members keeping their places; when x is no member of the thing list the call
\* reports it and leaves that list as it was, and an agents list that does not
\* hold x is left as it was.  Other environments' lists are untouched.
DeleteThingRemoves ==
    [][last'.op = "delete_thing" =>
          LET e == last'.env
              x == last'.thing
          IN  /\ last'.raised = "none"
              /\ last'.reported <=> ~In(x, thing[e])
              /\ thing'[e] = Without(thing[e], x)
              /\ agents'[e] = Without(agents[e], x)
              /\ ~In(x, thing[e]) => thing'[e] = thing[e]
              /\ ~In(x, agents[e]) => agents'[e] = agents[e]
              /\ \A f \in Envs \ {e} : thing'[f] = thing[f] /\ agents'[f] = agents[f]]_vars

\* C12 witness: delete_thing was called with an agent that is not registered in
\* an environment that holds other things; the call reported it.
DeleteThingRemovesWitness ==
    /\ last.op = "delete_thing"
    /\ last.reported
    /\ last.thing \in Agents
    /\ Len(thing[last.env]) >= 2
    /\ Len(agents[last.env]) >= 1

\* The actions execute_action acts on.
Recognized == {"Right", "Left", "treat"}

\* The recorded tick called execute_action on x with a recognized action.
ExecutedOn(rec, x) ==
    /\ rec.op = "step" /\ ~rec.skipped
    /\ \E i \in 1..Len(rec.executed) :
          rec.executed[i][1] = x /\ rec.executed[i][2] \in Recognized

\* C13 as stated: a performance changes only where a tick's execute_action
\* acts on that agent; no other operation changes one.
PerformanceOnlyByExecute ==
    [][\A x \in Things :
          performance'[x] # performance[x] => ExecutedOn(last', x)]_vars

\* C13 as the code has it: a performance changes only where a tick's
\* execute_action acts on that agent, or where add_thing registers the agent
\* and sets its performance to 0.
PerformanceByExecuteOrAdd ==
    [][\A x \in Things :
          performance'[x] # performance[x] =>
              \/ ExecutedOn(last', x)
              \/ /\ last'.op = "add_thing" /\ last'.thing = x /\ ~last'.reported
                 /\ x \in Agents
                 /\ performance'[x] = 0]_vars

\* C13 witness: an agent that had scored was deleted and registered again,
\* which cleared its score.
PerformanceByExecuteOrAddWitness ==
    /\ last.op = "add_thing"
    /\ ~last.reported
    /\ last.thing \in Agents
    /\ last.oldperf # 0
    /\ performance[last.thing] = 0
    /\ Len(percepts[program[last.thing]]) > 0

Unrecognized == {None, "", "right", "Up"}

\* C15: execute_action with an action other than "Right", "Left" and "treat"
\* raises nothing, reads no temperature and leaves the agent's performance and
\* location and every status as they are: called on the current world it
\* returns that world, and a tick leaves an agent whose action is unrecognized
\* where it was with the score it had, and, if no action of the tick is
\* recognized, leaves every status as it was.
UnrecognizedActionIgnored ==
    [][(last'.op = "step" /\ ~last'.skipped /\ last'.raised = "none") =>
          LET e == last'.env
          IN  /\ \A a \in Range(agents[e]), act \in Unrecognized, t \in Temps \cup {NoRead} :
                    execute_action(World(e), a, act, t) = World(e)
              /\ \A i \in 1..Len(agents[e]) :
                    last'.actions[i] \notin Recognized =>
                        /\ last'.executed[i] = <<agents[e][i], last'.actions[i]>>
                        /\ last'.tems[i] = NoRead
                        /\ performance'[agents[e][i]] = performance[agents[e][i]]
                        /\ location'[agents[e][i]] = location[agents[e][i]]
              /\ (\A i \in 1..Len(agents[e]) : last'.actions[i] \notin Recognized)
                    => status' = status]_vars

\* C15 witness: the doctor's program returned None and execute_action was
\* called with it, on an agent that holds a score and stands in an unhealthy room.
UnrecognizedActionIgnoredWitness ==
    /\ Ticked
    /\ last.raised = "none"
    /\ \E i \in 1..Len(agents[last.env]) :
          /\ alive[TickAgent(i)]
          /\ last.executed[i] = <<TickAgent(i), None>>
          /\ performance[TickAgent(i)] # 0
          /\ status[last.env][location[TickAgent(i)]] = "unhealthy"

\* C16: when a lone doctor's first action is "treat" and the temperature
\* supplied does not exceed the threshold, the doctor gets no reward and the
\* room it stands in keeps the status it showed.
TreatContingentOnMeasurement ==
    (/\ Ticked
     /\ Len(agents[last.env]) = 1
     /\ last.calln = <<1>>
     /\ last.actions = <<"treat">>
     /\ last.tems[1] <= Threshold) =>
        /\ performance[TickAgent(1)] = 0
        /\ status[last.env][last.seen[1][1]] = last.seen[1][2]

\* C17: no room's status goes from healthy to unhealthy; and in an environment
\* whose only agent is a doctor, once three ticks have been made (the doctor's
\* history holds one percept per tick) both rooms are healthy, whatever the
\* initial statuses, the doctor's first room and the temperatures supplied.
DoctorHeals ==
    /\ [][\A e \in Envs, r \in Rooms :
             status[e][r] = "healthy" => status'[e][r] = "healthy"]_vars
    /\ [](\A a \in Agents :
             (agents["e1"] = <<a>> /\ Len(percepts[program[a]]) >= 3)
                 => \A r \in Rooms : status["e1"][r] = "healthy")

\* C17 witness: both rooms were unhealthy; the doctor treated one below the
\* threshold, moved, and has now treated the other with its third action.
DoctorHealsWitness ==
    /\ Ticked
    /\ Len(agents[last.env]) = 1
    /\ Len(last.keys[1]) = 3
    /\ last.keys[1][1][2] = "unhealthy"
    /\ last.keys[1][3][2] = "unhealthy"
    /\ last.actions = <<"treat">>
    /\ performance[TickAgent(1)] < 10
    /\ \A r \in Rooms : status[last.env][r] = "healthy"

\* C18: every key of the doctor's table has one to three percepts and, when it
\* has more than one, the key without its last percept is a key too.  So a
\* call on an instance that has already been passed a history that is no key,
\* and every call from the fourth on, returns None, and execute_action is then
\* called with None and reads no temperature.
TablePrefixClosed ==
    /\ \A k \in DOMAIN table :
          /\ Len(k) \in 1..3
          /\ Len(k) > 1 => SubSeq(k, 1, Len(k) - 1) \in DOMAIN table
    /\ Ticked =>
          \A i \in TickCalls :
              (\/ last.calln[i] >= 4
               \/ \E k \in 1..(last.calln[i] - 1) :
                      SubSeq(TickFed(i), 1, k) \notin DOMAIN table) =>
                  /\ last.actions[i] = None
                  /\ last.raised = "none" =>
                        /\ last.executed[i] = <<TickAgent(i), None>>
                        /\ last.tems[i] = NoRead

\* C18 witness: a doctor whose first three calls each returned an action got
\* None on its fourth, standing in a room it had treated.
TablePrefixClosedWitness ==
    /\ Ticked
    /\ \E i \in TickCalls :
          /\ last.calln[i] = 4
          /\ SubSeq(TickFed(i), 1, 3) \in DOMAIN table
          /\ last.actions[i] = None
          /\ last.executed[i] = <<TickAgent(i), None>>

\* C19: only client code clears an alive flag; and a run() on an environment
\* whose agents are all alive, and that holds at least one, ends by exhausting
\* its range, having called step() exactly `steps` times.
RunMakesExactlySteps ==
    [][/\ \A a \in made : (alive[a] /\ ~alive'[a]) => last'.op = "kill"
       /\ (/\ pc = "run" /\ pc' = "idle"
           /\ Len(agents[runEnv]) >= 1
           /\ \A a \in Range(agents[runEnv]) : alive[a]) =>
              /\ last'.op = "run_return"
              /\ calls = runSteps]_vars

\* C20: add_thing of a bare program instance is never reported as a duplicate:
\* it registers, in both lists, a new agent object that was in neither and that
\* runs the instance passed.  Two agents of a tick that run the same instance
\* share its history: the later one's key starts with the earlier one's whole
\* key, which ends with the earlier one's percept, and ends with its own.
BareProgramAddedTwiceShares ==
    [][/\ last'.op = "add_thing" =>
             LET e == last'.env
                 a == last'.thing
             IN  /\ ~last'.reported
                 /\ a \in Agents \ made
                 /\ ~In(a, thing[e])
                 /\ thing'[e] = Append(thing[e], a)
                 /\ agents'[e] = Append(agents[e], a)
                 /\ program'[a] \in progs
                 /\ alive'[a]
       /\ (last'.op = "step" /\ ~last'.skipped) =>
             LET e == last'.env
             IN  \A i, j \in 1..Len(last'.keys) :
                    (i < j /\ program[agents[e][i]] = program[agents[e][j]]) =>
                        /\ agents[e][i] # agents[e][j]
                        /\ last'.calln[j] > last'.calln[i]
                        /\ SubSeq(last'.keys[j], 1, last'.calln[i]) = last'.keys[i]
                        /\ last'.keys[j][last'.calln[i]] = last'.seen[i]
                        /\ last'.keys[j][last'.calln[j]] = last'.seen[j]]_vars

\* C20 witness: one instance was passed to add_thing twice; in the tick that
\* followed, the second agent looked up the first agent's percept and its own.
BareProgramAddedTwiceSharesWitness ==
    /\ Ticked
    /\ Cardinality(progs) = 1
    /\ Len(agents[last.env]) = 2
    /\ TickAgent(1) # TickAgent(2)
    /\ TickProgram(1) = TickProgram(2)
    /\ last.keys[1] = <<last.seen[1]>>
    /\ last.keys[2] = <<last.seen[1], last.seen[2]>>

====
